---- MODULE Spec2Model ----
(***************************************************************************)
(* A model of socialmixing.py (class AgeMixing).                           *)
(*                                                                         *)
(* Strings are sequences of one-character strings, so that                 *)
(* _age_group_to_tuple really splits and parses.  Python dicts are         *)
(* records [keys, val]: keys is the insertion order, val the mapping.      *)
(* Floats are exact rationals <<n, d>> in lowest terms (d > 0): every      *)
(* numeric statement below is a statement of exact arithmetic, rounding    *)
(* of the 64-bit floats is not modelled.  A call that can raise returns    *)
(* a record [ok, val, err]; err names the Python exception.                *)
(***************************************************************************)
EXTENDS Integers, Sequences, FiniteSets, TLC

VARIABLES
    pc,                     \* position of the program: which step of __init__ is next, "ready", "failed"
    csv_mixing,             \* contents of Age-Mixing.csv
    csv_pop,                \* contents of US-Age-Sex-Distribution.csv
    social_mixing_matrix,   \* self.social_mixing_matrix
    age_proportions,        \* self.age_proportions
    scaled_matrix,          \* self.scaled_matrix
    op,                     \* the last operation that ran
    args,                   \* its arguments
    ret,                    \* what it returned
    err,                    \* the exception it raised, or "none"
    calls                   \* how many calls the object has served

vars == <<pc, csv_mixing, csv_pop, social_mixing_matrix, age_proportions,
          scaled_matrix, op, args, ret, err, calls>>

-----------------------------------------------------------------------------
(* Bounds of the model.                                                    *)

MaxAge == 2
MaxGroups == 2
MaxFileLabels == 2
MaxPop == 2
MaxNewGroups == 1
MaxSeqCalls == 2
MaxLabelLen == 4
MaxPopRows == 2
MaxFormatGroups == 3

-----------------------------------------------------------------------------
(* Results of calls that may raise.                                        *)

Ok(v) == [ok |-> TRUE, val |-> v, err |-> "none"]

Raise(e) == [ok |-> FALSE, val |-> <<>>, err |-> e]

(* The statements after a call: they run on what the call returned, and    *)
(* an exception of the call passes through them.                           *)
Then(r, Rest(_)) == IF ~r.ok THEN r ELSE Rest(r.val)

-----------------------------------------------------------------------------
(* Python dicts.                                                           *)

EmptyDict == [keys |-> <<>>, val |-> <<>>]

Range(s) == {s[i] : i \in 1..Len(s)}

Keys(d) == Range(d.keys)

Has(d, k) == k \in Keys(d)

Get(d, k) == d.val[k]

Put(d, k, v) ==
    [keys |-> IF Has(d, k) THEN d.keys ELSE Append(d.keys, k),
     val |-> (k :> v) @@ d.val]

-----------------------------------------------------------------------------
(* Floats, as exact rationals.                                             *)

Abs(n) == IF n < 0 THEN -n ELSE n

RECURSIVE GCD(_, _)
GCD(a, b) == IF b = 0 THEN a ELSE GCD(b, a % b)

Frac(n, d) ==
    LET g == GCD(Abs(n), Abs(d))
        s == IF d < 0 THEN -1 ELSE 1
    IN  <<(s * n) \div g, (s * d) \div g>>

Zero == <<0, 1>>

Float(n) == <<n, 1>>

FAdd(a, b) == Frac(a[1] * b[2] + b[1] * a[2], a[2] * b[2])

FMul(a, b) == Frac(a[1] * b[1], a[2] * b[2])

FDiv(a, b) == Frac(a[1] * b[2], a[2] * b[1])

-----------------------------------------------------------------------------
(* str.split('-') and int().                                               *)

Digits == {"0", "1", "2", "3", "4", "5", "6", "7", "8", "9"}

DigitVal(c) ==
    CASE c = "0" -> 0 [] c = "1" -> 1 [] c = "2" -> 2 [] c = "3" -> 3
      [] c = "4" -> 4 [] c = "5" -> 5 [] c = "6" -> 6 [] c = "7" -> 7
      [] c = "8" -> 8 [] c = "9" -> 9

(* The parts of s from position start on: up to the first separator, and   *)
(* the parts after it.                                                     *)
RECURSIVE SplitFrom(_, _, _)
SplitFrom(s, sep, start) ==
    LET seps == {i \in start..Len(s) : s[i] = sep}
    IN  IF seps = {} THEN <<SubSeq(s, start, Len(s))>>
        ELSE LET k == CHOOSE i \in seps : \A j \in seps : i <= j
             IN  <<SubSeq(s, start, k - 1)>> \o SplitFrom(s, sep, k + 1)

Split(s, sep) == SplitFrom(s, sep, 1)

IsInt(s) == Len(s) > 0 /\ \A i \in 1..Len(s) : s[i] \in Digits

RECURSIVE IntFrom(_, _, _)
IntFrom(s, i, acc) ==
    IF i > Len(s) THEN acc ELSE IntFrom(s, i + 1, 10 * acc + DigitVal(s[i]))

Int_(s) == IntFrom(s, 1, 0)

(* The unpacking of split's list raises ValueError unless it has two       *)
(* parts, int() raises ValueError on a part that is no integer.            *)
TupleOfParts(parts) ==
    IF Len(parts) # 2 THEN Raise("ValueError")
    ELSE IF ~IsInt(parts[1]) \/ ~IsInt(parts[2]) THEN Raise("ValueError")
    ELSE Ok(<<Int_(parts[1]), Int_(parts[2])>>)

(* _age_group_to_tuple: nothing compares lower with upper.                 *)
AgeGroupToTuple(age_group) == TupleOfParts(Split(age_group, "-"))

-----------------------------------------------------------------------------
(* AgeGroupArithmetic.                                                     *)

IsGroupInGroupStrict(group1, group2) ==
    Then(AgeGroupToTuple(group2), LAMBDA total :
    Then(AgeGroupToTuple(group1), LAMBDA my :
        Ok(my[1] > total[1] /\ my[2] <= total[2])))

IsGroupInGroupOverlap(group1, group2) ==
    Then(AgeGroupToTuple(group2), LAMBDA total :
    Then(AgeGroupToTuple(group1), LAMBDA my :
        Ok(my[1] <= total[2] /\ my[2] >= total[1])))

(* _is_group_in_group: group2 is parsed first.                             *)
IsGroupInGroup(group1, group2) ==
    Then(AgeGroupToTuple(group2), LAMBDA total :
    Then(AgeGroupToTuple(group1), LAMBDA my :
        Ok(my[1] >= total[1] /\ my[2] <= total[2])))

RECURSIVE SumAges(_, _, _, _)
SumAges(props, i, upper, acc) ==
    IF i > upper THEN Ok(acc)
    ELSE IF i \notin DOMAIN props THEN Raise("KeyError")
    ELSE SumAges(props, i + 1, upper, FAdd(acc, props[i]))

ProportionInGroupHalfOpen(group, props) ==
    Then(AgeGroupToTuple(group), LAMBDA t : SumAges(props, t[1], t[2] - 1, Zero))

(* _proportion_in_group: range(lower, upper+1) is empty when lower > upper. *)
ProportionInGroup(group, props) ==
    Then(AgeGroupToTuple(group), LAMBDA t : SumAges(props, t[1], t[2], Zero))

-----------------------------------------------------------------------------
(* load_social_mixing_matrix.  The file is a header (the labels after the   *)
(* "Age group" column) and rows [label, values].  DictReader gives None to  *)
(* the columns a short row has no value for, and float(None) raises         *)
(* TypeError.                                                               *)

(* ret[group_i][group_j] = v, after "if group_i not in ret: ret[group_i] = {}". *)
SetCell(acc, group_i, group_j, v) ==
    Put(acc, group_i, Put(IF Has(acc, group_i) THEN Get(acc, group_i) ELSE EmptyDict, group_j, v))

RECURSIVE LoadRowCells(_, _, _, _, _)
LoadRowCells(acc, group_i, header, values, j) ==
    IF j > Len(header) THEN Ok(acc)
    ELSE IF j > Len(values) THEN Raise("TypeError")
    ELSE LoadRowCells(SetCell(acc, group_i, header[j], Float(values[j])),
                      group_i, header, values, j + 1)

RECURSIVE LoadRows(_, _, _)
LoadRows(acc, table, i) ==
    IF i > Len(table.rows) THEN Ok(acc)
    ELSE Then(LoadRowCells(acc, table.rows[i].label, table.header, table.rows[i].values, 1),
              LAMBDA acc1 : LoadRows(acc1, table, i + 1))

LoadSocialMixingMatrixOf(table) == LoadRows(EmptyDict, table, 1)

-----------------------------------------------------------------------------
(* load_age_proportions.  The file is a sequence of rows [SEX, AGE, POP].   *)

Unbound == [bound |-> FALSE, val |-> Zero]

Bound(v) == [bound |-> TRUE, val |-> v]

SetAge(f, age, v) == (age :> v) @@ f

RECURSIVE ReadPopRows(_, _, _, _)
ReadPopRows(rows, i, acc, total) ==
    IF i > Len(rows) THEN [ret |-> acc, total |-> total]
    ELSE IF rows[i].SEX # "0" THEN ReadPopRows(rows, i + 1, acc, total)
    ELSE IF rows[i].AGE = 999
         THEN ReadPopRows(rows, i + 1, acc, Bound(Float(rows[i].POP)))
         ELSE ReadPopRows(rows, i + 1, SetAge(acc, rows[i].AGE, Float(rows[i].POP)), total)

(* The scaling loop reads total only when ret has an item: with no item     *)
(* the empty dict is returned, whether or not total was assigned.           *)
LoadAgeProportionsOf(rows) ==
    LET r == ReadPopRows(rows, 1, <<>>, Unbound)
    IN  IF DOMAIN r.ret = {} THEN Ok(r.ret)
        ELSE IF ~r.total.bound THEN Raise("UnboundLocalError")
        ELSE IF r.total.val = Zero THEN Raise("ZeroDivisionError")
        ELSE Ok([a \in DOMAIN r.ret |-> FDiv(r.ret[a], r.total.val)])

-----------------------------------------------------------------------------
(* get_scaled_matrix.                                                       *)

ScaleCellRowOnly(props, group_i, group_j, value) ==
    Then(ProportionInGroup(group_i, props), LAMBDA pi : Ok(FMul(FMul(pi, pi), value)))

ScaleCell(props, group_i, group_j, value) ==
    Then(ProportionInGroup(group_i, props), LAMBDA pi :
    Then(ProportionInGroup(group_j, props), LAMBDA pj :
        Ok(FMul(FMul(pi, pj), value))))

RECURSIVE ScaleCells(_, _, _, _, _)
ScaleCells(acc, props, group_i, row, j) ==
    IF j > Len(row.keys) THEN Ok(acc)
    ELSE Then(ScaleCell(props, group_i, row.keys[j], Get(row, row.keys[j])), LAMBDA v :
              ScaleCells(SetCell(acc, group_i, row.keys[j], v), props, group_i, row, j + 1))

RECURSIVE ScaleRows(_, _, _, _)
ScaleRows(acc, props, matrix, i) ==
    IF i > Len(matrix.keys) THEN Ok(acc)
    ELSE Then(ScaleCells(acc, props, matrix.keys[i], Get(matrix, matrix.keys[i]), 1),
              LAMBDA acc1 : ScaleRows(acc1, props, matrix, i + 1))

GetScaledMatrixOf(matrix, props) == ScaleRows(EmptyDict, props, matrix, 1)

-----------------------------------------------------------------------------
(* get_cell_for_new_matrix and get_new_matrix, of the scaled matrix given.  *)

(* The inner loop of get_cell_for_new_matrix, over group_j: "and" tests     *)
(* group_j only when group_i is in its new group.                           *)
RECURSIVE CellRow(_, _, _, _, _, _)
CellRow(scaled, new_group_i, new_group_j, group_i, j, acc) ==
    IF j > Len(scaled.keys) THEN Ok(acc)
    ELSE Then(IsGroupInGroup(group_i, new_group_i), LAMBDA a :
           IF ~a THEN CellRow(scaled, new_group_i, new_group_j, group_i, j + 1, acc)
           ELSE Then(IsGroupInGroup(scaled.keys[j], new_group_j), LAMBDA b :
             IF ~b THEN CellRow(scaled, new_group_i, new_group_j, group_i, j + 1, acc)
             ELSE IF ~Has(Get(scaled, group_i), scaled.keys[j]) THEN Raise("KeyError")
             ELSE CellRow(scaled, new_group_i, new_group_j, group_i, j + 1,
                          FAdd(acc, Get(Get(scaled, group_i), scaled.keys[j])))))

(* Its outer loop, over group_i.                                            *)
RECURSIVE CellLoop(_, _, _, _, _)
CellLoop(scaled, new_group_i, new_group_j, i, acc) ==
    IF i > Len(scaled.keys) THEN Ok(acc)
    ELSE Then(CellRow(scaled, new_group_i, new_group_j, scaled.keys[i], 1, acc),
              LAMBDA acc1 : CellLoop(scaled, new_group_i, new_group_j, i + 1, acc1))

GetCellForNewMatrixSwapped(scaled, new_group_i, new_group_j) ==
    CellLoop(scaled, new_group_j, new_group_i, 1, Zero)

GetCellForNewMatrixOf(scaled, new_group_i, new_group_j) ==
    CellLoop(scaled, new_group_i, new_group_j, 1, Zero)

(* The inner loop of get_new_matrix, over group_j.                          *)
RECURSIVE NewMatrixRow(_, _, _, _, _)
NewMatrixRow(scaled, new_groups, group_i, j, acc) ==
    IF j > Len(new_groups) THEN Ok(acc)
    ELSE Then(GetCellForNewMatrixOf(scaled, group_i, new_groups[j]), LAMBDA v :
              NewMatrixRow(scaled, new_groups, group_i, j + 1,
                           SetCell(acc, group_i, new_groups[j], v)))

(* Its outer loop, over group_i.                                            *)
RECURSIVE NewMatrixLoop(_, _, _, _)
NewMatrixLoop(scaled, new_groups, i, acc) ==
    IF i > Len(new_groups) THEN Ok(acc)
    ELSE Then(NewMatrixRow(scaled, new_groups, new_groups[i], 1, acc),
              LAMBDA acc1 : NewMatrixLoop(scaled, new_groups, i + 1, acc1))

GetNewMatrixSkipsFirst(scaled, new_groups) ==
    NewMatrixLoop(scaled, new_groups, 2, EmptyDict)

GetNewMatrixOf(scaled, new_groups) == NewMatrixLoop(scaled, new_groups, 1, EmptyDict)

-----------------------------------------------------------------------------
(* format_matrix.                                                           *)

DigitChar(k) ==
    CASE k = 0 -> "0" [] k = 1 -> "1" [] k = 2 -> "2" [] k = 3 -> "3"
      [] k = 4 -> "4" [] k = 5 -> "5" [] k = 6 -> "6" [] k = 7 -> "7"
      [] k = 8 -> "8" [] k = 9 -> "9"

RECURSIVE NatDigits(_)
NatDigits(n) ==
    IF n < 10 THEN <<DigitChar(n)>>
    ELSE Append(NatDigits(n \div 10), DigitChar(n % 10))

RECURSIVE FracDigits(_, _, _)
FracDigits(r, d, k) ==
    IF r = 0 \/ k = 0 THEN <<>>
    ELSE <<DigitChar((10 * r) \div d)>> \o FracDigits((10 * r) % d, d, k - 1)

(* str() of a float: "2.0", "0.25"; exact for the values whose decimal      *)
(* expansion ends within the 17 digits a double carries.                    *)
StrFloat(v) ==
    LET n == Abs(v[1])
        r == n % v[2]
    IN  (IF v[1] < 0 THEN <<"-">> ELSE <<>>)
        \o NatDigits(n \div v[2]) \o <<".">>
        \o (IF r = 0 THEN <<"0">> ELSE FracDigits(r, v[2], 17))

RECURSIVE Join(_, _)
Join(strs, sep) ==
    IF Len(strs) = 0 THEN <<>>
    ELSE IF Len(strs) = 1 THEN strs[1]
    ELSE strs[1] \o sep \o Join(Tail(strs), sep)

AgeGroupHeader == <<"A", "g", "e", " ", "g", "r", "o", "u", "p">>

Lower(group) == AgeGroupToTuple(group).val[1]

RECURSIVE InsertTiesFirst(_, _)
InsertTiesFirst(sorted, x) ==
    IF Len(sorted) = 0 THEN <<x>>
    ELSE IF Lower(sorted[Len(sorted)]) < Lower(x) THEN Append(sorted, x)
    ELSE Append(InsertTiesFirst(SubSeq(sorted, 1, Len(sorted) - 1), x), sorted[Len(sorted)])

(* One step of a stable sort: x goes after every element whose key is not   *)
(* greater than its own.                                                    *)
RECURSIVE Insert(_, _)
Insert(sorted, x) ==
    IF Len(sorted) = 0 THEN <<x>>
    ELSE IF Lower(sorted[Len(sorted)]) <= Lower(x) THEN Append(sorted, x)
    ELSE Append(Insert(SubSeq(sorted, 1, Len(sorted) - 1), x), sorted[Len(sorted)])

RECURSIVE SortFrom(_, _, _)
SortFrom(keys, i, sorted) ==
    IF i > Len(keys) THEN sorted ELSE SortFrom(keys, i + 1, Insert(sorted, keys[i]))

RECURSIVE SortFromTiesFirst(_, _, _)
SortFromTiesFirst(keys, i, sorted) ==
    IF i > Len(keys) THEN sorted
    ELSE SortFromTiesFirst(keys, i + 1, InsertTiesFirst(sorted, keys[i]))

SortedByLowerUnstable(keys) ==
    IF \E i \in 1..Len(keys) : ~AgeGroupToTuple(keys[i]).ok THEN Raise("ValueError")
    ELSE Ok(SortFromTiesFirst(keys, 1, <<>>))

(* sorted(matrix.keys(), key=lambda x: self._age_group_to_tuple(x)[0])      *)
SortedByLower(keys) ==
    IF \E i \in 1..Len(keys) : ~AgeGroupToTuple(keys[i]).ok THEN Raise("ValueError")
    ELSE Ok(SortFrom(keys, 1, <<>>))

RECURSIVE FormatCells(_, _, _, _, _)
FormatCells(matrix, groups, group_i, j, row) ==
    IF j > Len(groups) THEN Ok(row)
    ELSE IF ~Has(Get(matrix, group_i), groups[j]) THEN Raise("KeyError")
    ELSE FormatCells(matrix, groups, group_i, j + 1,
                     Append(row, StrFloat(Get(Get(matrix, group_i), groups[j]))))

RECURSIVE FormatRows(_, _, _, _)
FormatRows(matrix, groups, i, lines) ==
    IF i > Len(groups) THEN Ok(lines)
    ELSE Then(FormatCells(matrix, groups, groups[i], 1, <<groups[i]>>), LAMBDA row :
              FormatRows(matrix, groups, i + 1, Append(lines, Join(row, <<",">>))))

FormatMatrixOf(matrix) ==
    Then(SortedByLower(matrix.keys), LAMBDA groups :
    Then(FormatRows(matrix, groups, 1, <<Join(<<AgeGroupHeader>> \o groups, <<",">>)>>),
         LAMBDA lines : Ok(Join(lines, <<"\n">>))))

-----------------------------------------------------------------------------
(* The inputs: the two files, and the arguments of the calls.               *)

LabelOf(l, u) == NatDigits(l) \o <<"-">> \o NatDigits(u)

Labels == {LabelOf(l, u) : l \in 0..MaxAge, u \in 0..MaxAge}

AgePairs == {x \in (0..MaxAge) \X (0..MaxAge) : x[1] <= x[2]}

ProperLabels == {LabelOf(x[1], x[2]) : x \in AgePairs}

SeqsUpTo(S, n) == UNION {[1..k -> S] : k \in 0..n}

Distinct(s) == \A i \in 1..Len(s), j \in 1..Len(s) : s[i] = s[j] => i = j

Table(header, labels, values) ==
    [header |-> header,
     rows |-> [i \in 1..Len(labels) |-> [label |-> labels[i], values |-> values[i]]]]

RECURSIVE Pow2(_)
Pow2(k) == IF k = 0 THEN 1 ELSE 2 * Pow2(k - 1)

(* The value of row i, column j of a file: a power of two of its own, so    *)
(* that a sum of cells tells which cells it adds.                           *)
RawValue(cols, i, j) == Pow2(cols * (i - 1) + (j - 1))

RawValues(rows, cols) == [i \in 1..rows |-> [j \in 1..cols |-> RawValue(cols, i, j)]]

Rank(x) == x[1] * (MaxAge + 1) + x[2]

Ascending(s) == \A i \in 1..(Len(s) - 1) : Rank(s[i]) < Rank(s[i + 1])

(* The lists of at most n labels L-U, L <= U, by ascending age.             *)
AscendingLists(n) ==
    {[i \in 1..Len(s) |-> LabelOf(s[i][1], s[i][2])] :
        s \in {t \in SeqsUpTo(AgePairs, n) : Ascending(t)}}

(* Square files: the rows carry the header's labels, in the header's order, *)
(* the groups by ascending age.                                             *)
SquareTables ==
    {Table(h, h, RawValues(Len(h), Len(h))) : h \in AscendingLists(MaxGroups) \ {<<>>}}

(* The square file of one group per age.                                    *)
SingleAges == [i \in 1..(MaxAge + 1) |-> LabelOf(i - 1, i - 1)]

SingleAgesTable == Table(SingleAges, SingleAges, RawValues(MaxAge + 1, MaxAge + 1))

(* Square files whose groups split the ages 0..MaxAge, as the groups of a   *)
(* survey do.                                                               *)
PartitionTables ==
    {t \in SquareTables \cup {SingleAgesTable} :
        /\ AgeGroupToTuple(t.header[1]).val[1] = 0
        /\ AgeGroupToTuple(t.header[Len(t.header)]).val[2] = MaxAge
        /\ \A i \in 1..(Len(t.header) - 1) :
              AgeGroupToTuple(t.header[i + 1]).val[1] = AgeGroupToTuple(t.header[i]).val[2] + 1}

(* The labels of the files that need not be square: the youngest age,      *)
(* every age, and an upper bound below the lower one.                       *)
FileLabels == {LabelOf(0, 0), LabelOf(0, MaxAge), LabelOf(MaxAge, 0)}

(* Any file whose rows have one value per header column.                    *)
AnyTables ==
    UNION {{Table(h, l, RawValues(Len(l), Len(h))) : l \in SeqsUpTo(FileLabels, MaxFileLabels)} :
           h \in SeqsUpTo(FileLabels, MaxFileLabels)}

(* The square files of one group, the youngest age or every age.            *)
PopTables ==
    {t \in SquareTables : t.header \in {<<LabelOf(0, 0)>>, <<LabelOf(0, MaxAge)>>}}

PopRow(sex, age, pop) == [SEX |-> sex, AGE |-> age, POP |-> pop]

PopOfAge(a) == 1 + (a % 2)

RECURSIVE PopTotal(_)
PopTotal(a) == IF a < 0 THEN 0 ELSE PopOfAge(a) + PopTotal(a - 1)

(* A census file: the total row, then a both-sexes row and a male row per age. *)
CensusRows ==
    [i \in 1..(2 * MaxAge + 3) |->
        IF i = 1 THEN PopRow("0", 999, PopTotal(MaxAge))
        ELSE IF i % 2 = 0 THEN PopRow("0", (i - 2) \div 2, PopOfAge((i - 2) \div 2))
        ELSE PopRow("1", (i - 3) \div 2, 1)]

AnyPopRows ==
    SeqsUpTo({PopRow(s, a, n) : s \in {"0", "1"}, a \in {0, MaxAge, 999}, n \in 1..MaxPop},
             MaxPopRows)

(* The new groups of a call: a short list of labels L-U, L <= U, one label  *)
(* of any bounds, or two groups that split the ages 0..MaxAge.              *)
SplitLists == {<<LabelOf(0, k), LabelOf(k + 1, MaxAge)>> : k \in 0..(MaxAge - 1)}

NewGroupLists ==
    SeqsUpTo(ProperLabels, MaxNewGroups) \cup {<<g>> : g \in Labels} \cup SplitLists

-----------------------------------------------------------------------------
(* __init__, one action per statement.                                      *)

Start(table, rows) ==
    /\ pc = "load_matrix"
    /\ csv_mixing = table
    /\ csv_pop = rows
    /\ social_mixing_matrix = EmptyDict
    /\ age_proportions = <<>>
    /\ scaled_matrix = EmptyDict
    /\ op = "none"
    /\ args = <<>>
    /\ ret = <<>>
    /\ err = "none"
    /\ calls = 0

(* self.x = r: the attribute is assigned when the call returned, and the    *)
(* constructor ends with the call's exception otherwise.                    *)
AssignMatrix(r) ==
    /\ social_mixing_matrix' = IF r.ok THEN r.val ELSE social_mixing_matrix
    /\ pc' = IF r.ok THEN "load_props" ELSE "failed"
    /\ err' = r.err

AssignProportions(r) ==
    /\ age_proportions' = IF r.ok THEN r.val ELSE age_proportions
    /\ pc' = IF r.ok THEN "scale" ELSE "failed"
    /\ err' = r.err

AssignScaled(r) ==
    /\ scaled_matrix' = IF r.ok THEN r.val ELSE scaled_matrix
    /\ pc' = IF r.ok THEN "ready" ELSE "failed"
    /\ err' = r.err

LoadSocialMixingMatrix ==
    /\ pc = "load_matrix"
    /\ AssignMatrix(LoadSocialMixingMatrixOf(csv_mixing))
    /\ op' = "load_social_mixing_matrix"
    /\ UNCHANGED <<csv_mixing, csv_pop, age_proportions, scaled_matrix, args, ret, calls>>

LoadAgeProportions ==
    /\ pc = "load_props"
    /\ AssignProportions(LoadAgeProportionsOf(csv_pop))
    /\ op' = "load_age_proportions"
    /\ UNCHANGED <<csv_mixing, csv_pop, social_mixing_matrix, scaled_matrix, args, ret, calls>>

GetScaledMatrix ==
    /\ pc = "scale"
    /\ AssignScaled(GetScaledMatrixOf(social_mixing_matrix, age_proportions))
    /\ op' = "get_scaled_matrix"
    /\ UNCHANGED <<csv_mixing, csv_pop, social_mixing_matrix, age_proportions, args, ret, calls>>

-----------------------------------------------------------------------------------------------------------------------------------------------------
(* The calls on a constructed object.  A call that raises leaves the object *)
(* as it was.                                                               *)

Returns(name, arguments, r) ==
    /\ op' = name
    /\ args' = arguments
    /\ ret' = r.val
    /\ err' = r.err
    /\ calls' = calls + 1

GetNewMatrixClobbers(new_groups) ==
    /\ pc = "ready"
    /\ LET r == GetNewMatrixOf(scaled_matrix, new_groups)
       IN  /\ Returns("get_new_matrix", new_groups, r)
           /\ scaled_matrix' = IF r.ok THEN r.val ELSE scaled_matrix
    /\ UNCHANGED <<pc, csv_mixing, csv_pop, social_mixing_matrix, age_proportions>>

GetNewMatrix(new_groups) ==
    /\ pc = "ready"
    /\ Returns("get_new_matrix", new_groups, GetNewMatrixOf(scaled_matrix, new_groups))
    /\ UNCHANGED <<pc, csv_mixing, csv_pop, social_mixing_matrix, age_proportions, scaled_matrix>>

GetCellForNewMatrix(new_group_i, new_group_j) ==
    /\ pc = "ready"
    /\ Returns("get_cell_for_new_matrix", <<new_group_i, new_group_j>>,
               GetCellForNewMatrixOf(scaled_matrix, new_group_i, new_group_j))
    /\ UNCHANGED <<pc, csv_mixing, csv_pop, social_mixing_matrix, age_proportions, scaled_matrix>>

(* format_matrix(matrix), the matrix one the object holds.                  *)
FormatMatrix(which) ==
    /\ pc = "ready"
    /\ Returns("format_matrix", <<which>>,
               FormatMatrixOf(IF which = "raw" THEN social_mixing_matrix ELSE scaled_matrix))
    /\ UNCHANGED <<pc, csv_mixing, csv_pop, social_mixing_matrix, age_proportions, scaled_matrix>>

-----------------------------------------------------------------------------
(* One object, from the files to the first call it serves.                  *)

Init == \E table \in SquareTables \cup {SingleAgesTable} : Start(table, CensusRows)

Next ==
    \/ LoadSocialMixingMatrix
    \/ LoadAgeProportions
    \/ GetScaledMatrix
    \/ \E new_groups \in NewGroupLists \cup {scaled_matrix.keys} :
          calls = 0 /\ GetNewMatrix(new_groups)
    \/ \E i \in Labels : \E j \in {i, LabelOf(0, MaxAge)} :
          calls = 0 /\ GetCellForNewMatrix(i, j)
    \/ \E which \in {"raw", "scaled"} : calls = 0 /\ FormatMatrix(which)

Spec == Init /\ [][Next]_vars

(* Sequences of calls on one object.                                        *)
NextSeq ==
    \/ LoadSocialMixingMatrix
    \/ LoadAgeProportions
    \/ GetScaledMatrix
    \/ \E g \in Labels : calls < MaxSeqCalls /\ GetNewMatrix(<<g>>)
    \/ \E g \in Labels : calls < MaxSeqCalls /\ GetCellForNewMatrix(g, g)
    \/ \E which \in {"raw", "scaled"} : calls < MaxSeqCalls /\ FormatMatrix(which)

InitSeq == \E table \in PartitionTables : Start(table, CensusRows)

SpecSeq == InitSeq /\ [][NextSeq]_vars

(* The constructor on any pair of files, and a rebinning of what it built.   *)
InitFiles ==
    \/ \E table \in AnyTables \cup SquareTables : Start(table, CensusRows)
    \/ \E table \in PopTables, rows \in AnyPopRows : Start(table, rows)

ShapeGroupLists ==
    {<<>>} \cup {<<a, b>> : a \in {LabelOf(0, 0), LabelOf(0, MaxAge)},
                           b \in {LabelOf(0, MaxAge), LabelOf(MaxAge, MaxAge)}}

NextFiles ==
    \/ LoadSocialMixingMatrix
    \/ LoadAgeProportions
    \/ GetScaledMatrix
    \/ \E new_groups \in ShapeGroupLists : calls = 0 /\ GetNewMatrix(new_groups)

SpecFiles == InitFiles /\ [][NextFiles]_vars

-----------------------------------------------------------------------------
(* What the claims speak of.                                                *)

Min(group) == AgeGroupToTuple(group).val[1]

Max(group) == AgeGroupToTuple(group).val[2]

Contained(inner, outer) ==
    LET i == AgeGroupToTuple(inner).val
        o == AgeGroupToTuple(outer).val
    IN  i[1] >= o[1] /\ i[2] <= o[2]

Cell(matrix, p) == Get(Get(matrix, p[1]), p[2])

RECURSIVE SumCells(_, _)
SumCells(matrix, pairs) ==
    IF pairs = {} THEN Zero
    ELSE LET p == CHOOSE x \in pairs : TRUE
         IN  FAdd(Cell(matrix, p), SumCells(matrix, pairs \ {p}))

Covered(matrix, new_row, new_col) ==
    {g \in Keys(matrix) : Contained(g, new_row)} \X {g \in Keys(matrix) : Contained(g, new_col)}

Total(matrix) == SumCells(matrix, Keys(matrix) \X Keys(matrix))

Square(matrix) == \A r \in Keys(matrix) : Keys(Get(matrix, r)) = Keys(matrix)

SameMatrix(a, b) ==
    /\ Keys(a) = Keys(b)
    /\ \A r \in Keys(a) :
          /\ Keys(Get(a, r)) = Keys(Get(b, r))
          /\ \A c \in Keys(Get(a, r)) : Cell(a, <<r, c>>) = Cell(b, <<r, c>>)

Rebinned == pc = "ready" /\ op = "get_new_matrix" /\ err = "none"

(* C1: get_new_matrix returns, for the new groups it is given, the matrix   *)
(* whose cell (newRow, newCol) is the sum of the scaled cells (g_i, g_j)    *)
(* with g_i contained in newRow and g_j in newCol, 0 when there is none.    *)
TheoremC1 ==
    (pc = "ready" /\ op = "get_new_matrix") =>
        /\ err = "none"
        /\ Keys(ret) = Range(args)
        /\ \A new_row \in Range(args) :
              /\ Keys(Get(ret, new_row)) = Range(args)
              /\ \A new_col \in Range(args) :
                    LET covered == Covered(scaled_matrix, new_row, new_col)
                    IN  /\ Cell(ret, <<new_row, new_col>>) = SumCells(scaled_matrix, covered)
                        /\ covered = {} => Cell(ret, <<new_row, new_col>>) = Zero

WitnessC1 ==
    /\ Rebinned
    /\ Len(args) = 2
    /\ Cardinality(Covered(scaled_matrix, args[1], args[1])) >= 2
    /\ Covered(scaled_matrix, args[2], args[2]) = {}
    /\ Cell(ret, <<args[1], args[1]>>) # Zero
    /\ Cell(ret, <<args[2], args[2]>>) = Zero

Tiles(new_groups, matrix) ==
    \A g \in Keys(matrix) : Cardinality({n \in Range(new_groups) : Contained(g, n)}) = 1

(* C2: when every original group is contained in exactly one new group, the *)
(* cells of the new matrix add up to what the cells of the scaled matrix    *)
(* add up to.                                                               *)
TheoremC2 ==
    (Rebinned /\ Tiles(args, scaled_matrix)) => Total(ret) = Total(scaled_matrix)

WitnessC2 ==
    /\ Rebinned
    /\ Tiles(args, scaled_matrix)
    /\ Len(scaled_matrix.keys) = 3
    /\ Cardinality(Range(args)) = 2
    /\ \E n \in Range(args) :
          /\ n \notin Keys(scaled_matrix)
          /\ Cardinality({g \in Keys(scaled_matrix) : Contained(g, n)}) = 2

NoNesting(matrix) ==
    \A g \in Keys(matrix), h \in Keys(matrix) : g # h => ~Contained(g, h)

IdentityCall == Rebinned /\ args = scaled_matrix.keys

(* C3 as claimed: with the original groups as new groups, get_new_matrix    *)
(* returns the scaled matrix, whatever the original groups are.             *)
OriginalC3 == IdentityCall => SameMatrix(ret, scaled_matrix)

(* C3: with the original groups as new groups, get_new_matrix returns the   *)
(* scaled matrix cell for cell, provided no original group is contained in  *)
(* another original group.                                                  *)
TheoremC3 ==
    (IdentityCall /\ NoNesting(scaled_matrix)) => SameMatrix(ret, scaled_matrix)

WitnessC3 ==
    /\ IdentityCall
    /\ NoNesting(scaled_matrix)
    /\ Len(scaled_matrix.keys) >= 2
    /\ \E g \in Keys(scaled_matrix), h \in Keys(scaled_matrix) :
          g # h /\ Min(h) <= Max(g) /\ Min(g) <= Min(h)

-----------------------------------------------------------------------------
(* Claims about the constructor, under SpecFiles.                           *)

RECURSIVE SumProps(_, _)
SumProps(props, ages) ==
    IF ages = {} THEN Zero
    ELSE LET a == CHOOSE x \in ages : TRUE
         IN  FAdd(props[a], SumProps(props, ages \ {a}))

AgesOf(label) == Min(label)..Max(label)

Share(label) == SumProps(age_proportions, AgesOf(label))

UsedLabels(matrix) == Keys(matrix) \cup UNION {Keys(Get(matrix, r)) : r \in Keys(matrix)}

SameLabels(a, b) ==
    /\ Keys(a) = Keys(b)
    /\ \A r \in Keys(a) : Keys(Get(a, r)) = Keys(Get(b, r))

(* C5: get_scaled_matrix maps every cell (row, col, value) of the raw       *)
(* matrix to value * share(row) * share(col), share(label) the sum of       *)
(* age_proportions over the ages min..max of the label, and keeps the row   *)
(* and column labels; it raises KeyError when an age of a label is not in   *)
(* the table.                                                               *)
TheoremC5 ==
    op = "get_scaled_matrix" =>
        IF \A g \in UsedLabels(social_mixing_matrix) : AgesOf(g) \subseteq DOMAIN age_proportions
        THEN /\ pc = "ready"
             /\ SameLabels(scaled_matrix, social_mixing_matrix)
             /\ \A r \in Keys(social_mixing_matrix) :
                   \A c \in Keys(Get(social_mixing_matrix, r)) :
                       Cell(scaled_matrix, <<r, c>>)
                         = FMul(Cell(social_mixing_matrix, <<r, c>>), FMul(Share(r), Share(c)))
        ELSE pc = "failed" /\ err = "KeyError"

WitnessC5 ==
    /\ op = "get_scaled_matrix"
    /\ pc = "ready"
    /\ Len(social_mixing_matrix.keys) = 2
    /\ \E r \in Keys(social_mixing_matrix) :
          \E c \in Keys(Get(social_mixing_matrix, r)) :
              /\ Min(r) < Max(r)
              /\ Share(r) # Share(c)
              /\ Share(c) # Zero
              /\ Cell(scaled_matrix, <<r, c>>) # Cell(social_mixing_matrix, <<r, c>>)

NoSentinel(rows) == \A i \in 1..Len(rows) : ~(rows[i].SEX = "0" /\ rows[i].AGE = 999)

(* C7: load_age_proportions fails on every population file without a        *)
(* both-sexes row of age 999, a file with no both-sexes row included, and   *)
(* returns no table then.                                                   *)
ClaimC7 ==
    (op = "load_age_proportions" /\ NoSentinel(csv_pop)) => (pc = "failed" /\ err # "none")

SquareFile(table) == Range(table.header) = {table.rows[i].label : i \in 1..Len(table.rows)}

(* C8 as claimed: the raw matrix once loaded, the scaled matrix and the new *)
(* matrix are square, each row's column labels being the row labels.        *)
OriginalC8 ==
    /\ pc # "load_matrix" => Square(social_mixing_matrix)
    /\ pc = "ready" => Square(scaled_matrix)
    /\ Rebinned => Square(ret)

(* C8: the new matrix is square, the scaled matrix has the labels of the    *)
(* raw matrix, and the raw and the scaled matrix are square when the row    *)
(* labels of the mixing file are its header's labels.                       *)
TheoremC8 ==
    /\ SquareFile(csv_mixing) => (pc # "load_matrix" => Square(social_mixing_matrix))
    /\ SquareFile(csv_mixing) => (pc = "ready" => Square(scaled_matrix))
    /\ pc = "ready" => SameLabels(scaled_matrix, social_mixing_matrix)
    /\ Rebinned => (Square(ret) /\ Keys(ret) = Range(args))

WitnessC8 ==
    /\ Rebinned
    /\ SquareFile(csv_mixing)
    /\ Len(social_mixing_matrix.keys) = 2
    /\ Cardinality(Keys(ret)) = 2

-----------------------------------------------------------------------------
(* Claims about sequences of calls, under SpecSeq.                          *)

Fresh(new_groups) ==
    GetNewMatrixOf(
        GetScaledMatrixOf(LoadSocialMixingMatrixOf(csv_mixing).val,
                          LoadAgeProportionsOf(csv_pop).val).val,
        new_groups)

(* C10: no call on a constructed object changes social_mixing_matrix,       *)
(* age_proportions or scaled_matrix, and get_new_matrix returns what it     *)
(* returns on a freshly constructed object, whatever calls came before.     *)
TheoremC10 ==
    /\ [][pc = "ready" => UNCHANGED <<social_mixing_matrix, age_proportions, scaled_matrix>>]_vars
    /\ [](Rebinned => ret = Fresh(args).val)

WitnessC10 == Rebinned /\ calls = MaxSeqCalls /\ Len(ret.keys) = 1

-----------------------------------------------------------------------------
(* _age_group_to_tuple on any string, under SpecParse.                      *)

ParseAlphabet == {"0", "1", "2", "-", "a"}

Idle(position, arguments) ==
    /\ pc = position
    /\ args = arguments
    /\ csv_mixing = <<>>
    /\ csv_pop = <<>>
    /\ social_mixing_matrix = EmptyDict
    /\ age_proportions = <<>>
    /\ op = "none"
    /\ ret = <<>>
    /\ err = "none"
    /\ calls = 0

InitParse ==
    /\ scaled_matrix = EmptyDict
    /\ \E label \in SeqsUpTo(ParseAlphabet, MaxLabelLen) : Idle("parse", <<label>>)

CallAgeGroupToTuple ==
    /\ pc = "parse"
    /\ pc' = "done"
    /\ Returns("_age_group_to_tuple", args, AgeGroupToTuple(args[1]))
    /\ UNCHANGED <<csv_mixing, csv_pop, social_mixing_matrix, age_proportions, scaled_matrix>>

SpecParse == InitParse /\ [][CallAgeGroupToTuple]_vars

DigitsOnly(s) == Len(s) > 0 /\ \A i \in 1..Len(s) : s[i] \in Digits

(* The label is L-U, L and U integers.                                      *)
IntegerForm(label) ==
    \E k \in 1..Len(label) :
        /\ label[k] = "-"
        /\ DigitsOnly(SubSeq(label, 1, k - 1))
        /\ DigitsOnly(SubSeq(label, k + 1, Len(label)))

LowerOf(label) ==
    LET k == CHOOSE i \in 1..Len(label) : label[i] = "-" IN Int_(SubSeq(label, 1, k - 1))

UpperOf(label) ==
    LET k == CHOOSE i \in 1..Len(label) : label[i] = "-"
    IN  Int_(SubSeq(label, k + 1, Len(label)))

(* C6: parsing a label fails when the label is not L-U with integers L and  *)
(* U, and when L > U; it returns (L, U) only when L <= U.                   *)
ClaimC6 ==
    op = "_age_group_to_tuple" =>
        IF IntegerForm(args[1]) /\ LowerOf(args[1]) <= UpperOf(args[1])
        THEN err = "none" /\ ret = <<LowerOf(args[1]), UpperOf(args[1])>>
        ELSE err # "none"

-----------------------------------------------------------------------------
(* format_matrix on any square matrix, under SpecFormat.                    *)

FormatLabels == {LabelOf(l, u) : l \in {0, 9, 10}, u \in {1, 10}}

FormatMatrices ==
    {LoadSocialMixingMatrixOf(Table(h, h, RawValues(Len(h), Len(h)))).val :
        h \in {s \in SeqsUpTo(FormatLabels, MaxFormatGroups) : Distinct(s)}}

InitFormat ==
    /\ scaled_matrix = EmptyDict
    /\ \E matrix \in FormatMatrices : Idle("format", <<matrix>>)

CallFormatMatrix ==
    /\ pc = "format"
    /\ pc' = "done"
    /\ Returns("format_matrix", args, FormatMatrixOf(args[1]))
    /\ UNCHANGED <<csv_mixing, csv_pop, social_mixing_matrix, age_proportions, scaled_matrix>>

SpecFormat == InitFormat /\ [][CallFormatMatrix]_vars

Position(seq, x) == CHOOSE i \in 1..Len(seq) : seq[i] = x

(* C9: format_matrix of a matrix of n groups returns n + 1 lines: the       *)
(* header "Age group" and the groups by ascending lower bound, groups of    *)
(* equal lower bound in the matrix's order; then a line per group, in that  *)
(* order: the group, then the cells of its row in the header's order.       *)
TheoremC9 ==
    op = "format_matrix" =>
        /\ err = "none"
        /\ LET matrix == args[1]
               n == Len(matrix.keys)
               lines == Split(ret, "\n")
               header == Split(lines[1], ",")
           IN  /\ Len(lines) = n + 1
               /\ Len(header) = n + 1
               /\ header[1] = AgeGroupHeader
               /\ Range(Tail(header)) = Keys(matrix)
               /\ \A i \in 2..(n + 1), j \in 2..(n + 1) :
                     i < j =>
                        \/ Min(header[i]) < Min(header[j])
                        \/ /\ Min(header[i]) = Min(header[j])
                           /\ Position(matrix.keys, header[i]) < Position(matrix.keys, header[j])
               /\ \A i \in 2..(n + 1) :
                     LET row == Split(lines[i], ",")
                     IN  /\ Len(row) = n + 1
                         /\ row[1] = header[i]
                         /\ \A j \in 2..(n + 1) :
                               row[j] = StrFloat(Cell(matrix, <<header[i], header[j]>>))

WitnessC9 ==
    /\ op = "format_matrix"
    /\ err = "none"
    /\ Len(args[1].keys) = 3
    /\ Min(args[1].keys[1]) = 10
    /\ Min(args[1].keys[2]) = Min(args[1].keys[3])
    /\ Max(args[1].keys[2]) > Max(args[1].keys[3])

-----------------------------------------------------------------------------
(* get_new_matrix of a matrix get_new_matrix returned, under SpecTwice.     *)
(* The code rebins self.scaled_matrix; here the matrix is whichever the     *)
(* object is given to hold.                                                 *)

Tiling(groups) ==
    \A i \in 1..Len(groups), j \in 1..Len(groups) :
        i # j => AgesOf(groups[i]) \cap AgesOf(groups[j]) = {}

(* Every fine group lies in a coarse group, and every coarse group is the   *)
(* union of the fine groups that lie in it.                                 *)
UnionsOf(coarse, fine) ==
    /\ \A f \in fine : \E c \in Range(coarse) : Contained(f, c)
    /\ \A c \in Range(coarse) :
          AgesOf(c) = UNION {AgesOf(f) : f \in {x \in fine : Contained(x, c)}}

(* The original groups of a file, coarser groups, and yet coarser groups.   *)
InitTwice ==
    \E table \in SquareTables \cup {SingleAgesTable}, intermediate \in AscendingLists(MaxGroups) :
        /\ Tiling(intermediate)
        /\ UnionsOf(intermediate, Range(table.header))
        /\ \E final \in AscendingLists(MaxGroups) :
              /\ Tiling(final)
              /\ UnionsOf(final, Range(intermediate))
              /\ scaled_matrix = LoadSocialMixingMatrixOf(table).val
              /\ Idle("rebin", <<intermediate, final>>)

RebinIntermediate ==
    /\ pc = "rebin"
    /\ pc' = "rebin_again"
    /\ ret' = [intermediate |-> GetNewMatrixOf(scaled_matrix, args[1]).val]
    /\ op' = "get_new_matrix"
    /\ UNCHANGED <<csv_mixing, csv_pop, social_mixing_matrix, age_proportions, scaled_matrix,
                   args, err, calls>>

RebinAgain ==
    /\ pc = "rebin_again"
    /\ pc' = "rebin_direct"
    /\ ret' = [intermediate |-> ret.intermediate,
               twice |-> GetNewMatrixOf(ret.intermediate, args[2]).val]
    /\ UNCHANGED <<csv_mixing, csv_pop, social_mixing_matrix, age_proportions, scaled_matrix,
                   op, args, err, calls>>

RebinDirect ==
    /\ pc = "rebin_direct"
    /\ pc' = "done"
    /\ ret' = [intermediate |-> ret.intermediate,
               twice |-> ret.twice,
               direct |-> GetNewMatrixOf(scaled_matrix, args[2]).val]
    /\ UNCHANGED <<csv_mixing, csv_pop, social_mixing_matrix, age_proportions, scaled_matrix,
                   op, args, err, calls>>

NextTwice == RebinIntermediate \/ RebinAgain \/ RebinDirect

SpecTwice == InitTwice /\ [][NextTwice]_vars

Coarsening ==
    /\ Tiling(args[1])
    /\ Tiling(args[2])
    /\ UnionsOf(args[1], Keys(scaled_matrix))
    /\ UnionsOf(args[2], Range(args[1]))

(* C4: when the intermediate groups tile and are unions of original groups  *)
(* and the final groups tile and are unions of intermediate groups,         *)
(* rebinning to the intermediate groups and then to the final groups gives  *)
(* the matrix that rebinning to the final groups gives.                     *)
TheoremC4 == (pc = "done" /\ Coarsening) => SameMatrix(ret.twice, ret.direct)

WitnessC4 ==
    /\ pc = "done"
    /\ Coarsening
    /\ Len(scaled_matrix.keys) = 3
    /\ Len(args[1]) = 2
    /\ Len(args[2]) = 1
    /\ Len(ret.twice.keys) = 1
    /\ Cell(ret.twice, <<args[2][1], args[2][1]>>) = Total(scaled_matrix)

====
